---- MODULE Spec2Model ----
(***************************************************************************)
(* InsaneAnalytics (src/src/core.js): the event queue, its flush triggers, *)
(* the two transports, the requeue on failure, the engagement handlers and *)
(* the loader that replays window.ia.q.                                    *)
(*                                                                         *)
(* The instance and its surroundings are gathered in one record, the       *)
(* "world" w; every method of the class is an operator from world to world *)
(* so that a handler that calls other methods (handleExit -> track ->       *)
(* sendBatch) is the composition of their operators.  The variables are    *)
(* the fields of that record.                                              *)
(***************************************************************************)
EXTENDS Integers, Sequences, FiniteSets, TLC

VARIABLES
    config,         \* this.config
    queue,          \* this.queue
    startTime,      \* this.startTime
    lastActiveTime, \* this.lastActiveTime
    activeTime,     \* this.activeTime
    isActive,       \* this.isActive
    initialized,    \* this.initialized
    interactions,   \* this.interactions
    maxScrollDepth, \* this.maxScrollDepth
    listeners,      \* the DOM listeners of setupEventListeners are registered
    timers,         \* number of setInterval timers started by startBatchProcessing
    inflight,       \* the POST {endpoint}/collect requests awaiting their response
    probes,         \* GET {endpoint}/beacon requests awaiting their response
    delivered,      \* events of the batches whose POST got an ok response, in completion order
    beacons,        \* the navigator.sendBeacon calls made, in call order
    now,            \* Date.now()
    log,            \* every event ever pushed by track(), in push order
    env,            \* the browser: window.performance, navigator.sendBeacon, failing collaborator
    lastCall,       \* the last call made from outside and whether it threw
    loader,         \* the page's script: window.ia.q, the state of window.ia, the init commands
    signalAt,       \* clock reading at the latest activity signal (at construction before the first)
    initCalls       \* number of calls of init() so far

vars == <<config, queue, startTime, lastActiveTime, activeTime, isActive,
          initialized, interactions, maxScrollDepth, listeners, timers,
          inflight, probes, delivered, beacons, now, log, env, lastCall, loader,
          signalAt, initCalls>>

-----------------------------------------------------------------------------
(* Bounds of the model *)

\* events pushed by track() in one delivery run
MaxEvents == 4

\* events pushed by track() in one engagement run
MaxSignalEvents == 3

\* activity signals in one engagement run
MaxInteractions == 2

\* the clock advances while it reads less than this many seconds
MaxSeconds == 2

\* largest configured batchSize tried
MaxBatchSize == 3

-----------------------------------------------------------------------------
(* Values *)

\* the value undefined (of a string-valued place)
Undefined == "undefined"

Min(a, b) == IF a <= b THEN a ELSE b

\* a string as the sequence of its pieces; "/" is one piece
DefaultEndpoint == <<"https://api.insaneanalytics.com">>

DefaultBatchSize == 10

DefaultBatchInterval == 5000

\* endpoint.replace(/\/$/, ''): one trailing slash is removed
StripTrailingSlash(s) ==
    IF Len(s) > 0 /\ s[Len(s)] = "/" THEN SubSeq(s, 1, Len(s) - 1) ELSE s

\* config.endpoint?.replace(...) || default. A missing endpoint and '' are both
\* falsy and both written <<>>.
ConfigEndpoint(e) ==
    IF StripTrailingSlash(e) = <<>> THEN DefaultEndpoint ELSE StripTrailingSlash(e)

\* x || d for a numeric option. A missing option and 0 are both falsy and both
\* written 0.
OrDefault(x, d) == IF x = 0 THEN d ELSE x

\* this.config = {...}
MakeConfig(c) ==
    [endpoint      |-> ConfigEndpoint(c.endpoint),
     domainId      |-> c.domainId,
     batchSize     |-> OrDefault(c.batchSize, DefaultBatchSize),
     batchInterval |-> OrDefault(c.batchInterval, DefaultBatchInterval),
     debug         |-> c.debug]

\* `${this.config.endpoint}/collect`
CollectUrl(w) == w.config.endpoint \o <<"/collect">>

-----------------------------------------------------------------------------
(* The world record *)

World ==
    [config |-> config, queue |-> queue, startTime |-> startTime,
     lastActiveTime |-> lastActiveTime, activeTime |-> activeTime,
     isActive |-> isActive, initialized |-> initialized,
     interactions |-> interactions, maxScrollDepth |-> maxScrollDepth,
     listeners |-> listeners, timers |-> timers, inflight |-> inflight,
     probes |-> probes, delivered |-> delivered, beacons |-> beacons,
     now |-> now, log |-> log, env |-> env, lastCall |-> lastCall,
     loader |-> loader, signalAt |-> signalAt, initCalls |-> initCalls]

\* the variables hold the world w
Start(w) ==
    /\ config = w.config
    /\ queue = w.queue
    /\ startTime = w.startTime
    /\ lastActiveTime = w.lastActiveTime
    /\ activeTime = w.activeTime
    /\ isActive = w.isActive
    /\ initialized = w.initialized
    /\ interactions = w.interactions
    /\ maxScrollDepth = w.maxScrollDepth
    /\ listeners = w.listeners
    /\ timers = w.timers
    /\ inflight = w.inflight
    /\ probes = w.probes
    /\ delivered = w.delivered
    /\ beacons = w.beacons
    /\ now = w.now
    /\ log = w.log
    /\ env = w.env
    /\ lastCall = w.lastCall
    /\ loader = w.loader
    /\ signalAt = w.signalAt
    /\ initCalls = w.initCalls

\* the next state is the world w
Commit(w) ==
    /\ config' = w.config
    /\ queue' = w.queue
    /\ startTime' = w.startTime
    /\ lastActiveTime' = w.lastActiveTime
    /\ activeTime' = w.activeTime
    /\ isActive' = w.isActive
    /\ initialized' = w.initialized
    /\ interactions' = w.interactions
    /\ maxScrollDepth' = w.maxScrollDepth
    /\ listeners' = w.listeners
    /\ timers' = w.timers
    /\ inflight' = w.inflight
    /\ probes' = w.probes
    /\ delivered' = w.delivered
    /\ beacons' = w.beacons
    /\ now' = w.now
    /\ log' = w.log
    /\ env' = w.env
    /\ lastCall' = w.lastCall
    /\ loader' = w.loader
    /\ signalAt' = w.signalAt
    /\ initCalls' = w.initCalls

-----------------------------------------------------------------------------
(* track and sendBatch *)

\* the event object built by track(); seq is its position in the push order
\* (the model's name for the object's identity)
MakeEvent(w, eventType, data) ==
    [seq       |-> Len(w.log) + 1,
     eventType |-> eventType,
     timestamp |-> w.now,
     visitorId |-> "vid",
     sessionId |-> "sid",
     domainId  |-> w.config.domainId,
     data      |-> data]

\* SendBatch that reads the batch with slice(): the events stay in the queue
SendBatchSlice(w) ==
    IF Len(w.queue) = 0 THEN w
    ELSE LET n     == Min(w.config.batchSize, Len(w.queue))
             batch == SubSeq(w.queue, 1, n)
         IN  [w EXCEPT !.inflight = @ \cup {[url |-> CollectUrl(w), batch |-> batch]}]

\* SendBatch that splices the whole queue, whatever batchSize is
SendBatchWholeQueue(w) ==
    IF Len(w.queue) = 0 THEN w
    ELSE [w EXCEPT !.queue    = <<>>,
                   !.inflight = @ \cup {[url |-> CollectUrl(w), batch |-> w.queue]}]

\* sendBatch() up to its await: the empty check, the splice and the fetch call
SendBatch(w) ==
    IF Len(w.queue) = 0 THEN w
    ELSE LET n     == Min(w.config.batchSize, Len(w.queue))
             batch == SubSeq(w.queue, 1, n)
         IN  [w EXCEPT !.queue    = SubSeq(w.queue, n + 1, Len(w.queue)),
                       !.inflight = @ \cup {[url |-> CollectUrl(w), batch |-> batch]}]

\* sendBatch() after its await, response.ok: the batch is dropped
SendBatchResolved(w, r) ==
    [w EXCEPT !.inflight  = @ \ {r},
              !.delivered = @ \o r.batch]

\* SendBatchRejected with a catch block that only logs: the batch is not put back
SendBatchRejectedDrops(w, r) == [w EXCEPT !.inflight = @ \ {r}]

\* SendBatchRejected that marks the events it puts back as retried
SendBatchRejectedMarks(w, r) ==
    [w EXCEPT !.inflight = @ \ {r},
              !.queue    = [i \in 1..Len(r.batch) |->
                               [r.batch[i] EXCEPT !.data = [retry |-> 1]]] \o @]

\* sendBatch() after its await, fetch rejected or !response.ok: the catch block
SendBatchRejected(w, r) ==
    [w EXCEPT !.inflight = @ \ {r},
              !.queue    = r.batch \o @]

\* Track with the threshold test written > instead of >=
TrackAboveThreshold(w, eventType, data) ==
    LET event == MakeEvent(w, eventType, data)
        w1    == [w EXCEPT !.queue = Append(@, event), !.log = Append(@, event)]
    IN  IF Len(w1.queue) > w1.config.batchSize THEN SendBatch(w1) ELSE w1

\* Track with the threshold test written === instead of >=
TrackAtThreshold(w, eventType, data) ==
    LET event == MakeEvent(w, eventType, data)
        w1    == [w EXCEPT !.queue = Append(@, event), !.log = Append(@, event)]
    IN  IF Len(w1.queue) = w1.config.batchSize THEN SendBatch(w1) ELSE w1

\* track(eventType, data)
Track(w, eventType, data) ==
    LET event == MakeEvent(w, eventType, data)
        w1    == [w EXCEPT !.queue = Append(@, event), !.log = Append(@, event)]
    IN  IF Len(w1.queue) >= w1.config.batchSize THEN SendBatch(w1) ELSE w1

NoData == [none |-> 0]

-----------------------------------------------------------------------------
(* Handlers *)

\* handleVisibilityChange()
HandleVisibilityChange(w, hidden) ==
    IF hidden
    THEN Track(w, "page_hide", [activeTime |-> w.activeTime,
                                totalTime  |-> w.now - w.startTime])
    ELSE Track(w, "page_show", NoData)

\* HandleExit that keeps the beacon's batch queued, as for a send to be retried
HandleExitPutsBack(w) ==
    LET w1 == Track(w, "page_exit", [activeTime     |-> w.activeTime,
                                     totalTime      |-> w.now - w.startTime,
                                     maxScrollDepth |-> w.maxScrollDepth,
                                     interactions   |-> w.interactions])
    IN  IF w1.env.sendBeacon
        THEN [w1 EXCEPT !.beacons = Append(@, [url |-> CollectUrl(w1), batch |-> w1.queue])]
        ELSE w1

\* handleExit()
HandleExit(w) ==
    LET w1 == Track(w, "page_exit", [activeTime     |-> w.activeTime,
                                     totalTime      |-> w.now - w.startTime,
                                     maxScrollDepth |-> w.maxScrollDepth,
                                     interactions   |-> w.interactions])
    IN  IF w1.env.sendBeacon
        THEN [w1 EXCEPT !.queue   = <<>>,
                        !.beacons = Append(@, [url |-> CollectUrl(w1), batch |-> w1.queue])]
        ELSE w1

\* the gap an activity signal must exceed to be counted, in ms
ActiveGap == 1000

\* HandleActivity with the gap test written >= instead of >
HandleActivityAtLeast(w) ==
    LET w1 == IF ~w.isActive
              THEN Track([w EXCEPT !.isActive = TRUE], "activity_start", NoData)
              ELSE w
        w2 == IF w1.now - w1.lastActiveTime >= ActiveGap
              THEN [w1 EXCEPT !.activeTime = @ + (w1.now - w1.lastActiveTime)]
              ELSE w1
    IN  [w2 EXCEPT !.lastActiveTime = w2.now, !.interactions = @ + 1]

\* HandleActivity that tracks activity_start without setting isActive
HandleActivityStaysInactive(w) ==
    LET w1 == IF ~w.isActive
              THEN Track(w, "activity_start", NoData)
              ELSE w
        w2 == IF w1.now - w1.lastActiveTime > ActiveGap
              THEN [w1 EXCEPT !.activeTime = @ + (w1.now - w1.lastActiveTime)]
              ELSE w1
    IN  [w2 EXCEPT !.lastActiveTime = w2.now, !.interactions = @ + 1]

\* HandleActivity that does not move lastActiveTime
HandleActivityKeepsLast(w) ==
    LET w1 == IF ~w.isActive
              THEN Track([w EXCEPT !.isActive = TRUE], "activity_start", NoData)
              ELSE w
        w2 == IF w1.now - w1.lastActiveTime > ActiveGap
              THEN [w1 EXCEPT !.activeTime = @ + (w1.now - w1.lastActiveTime)]
              ELSE w1
    IN  [w2 EXCEPT !.interactions = @ + 1]

\* handleActivity()
HandleActivity(w) ==
    LET w1 == IF ~w.isActive
              THEN Track([w EXCEPT !.isActive = TRUE], "activity_start", NoData)
              ELSE w
        w2 == IF w1.now - w1.lastActiveTime > ActiveGap
              THEN [w1 EXCEPT !.activeTime = @ + (w1.now - w1.lastActiveTime)]
              ELSE w1
    IN  [w2 EXCEPT !.lastActiveTime = w2.now, !.interactions = @ + 1]

\* the number +Infinity
Infinity == 1000000000

\* scrollTop / range * 100 is NaN: 0 / 0
DepthIsNaN(scrollTop, range) == range = 0 /\ scrollTop = 0

\* Math.round((scrollTop / range) * 100) for range = docHeight - winHeight, when
\* it is a number: Math.round(x) is floor(x + 1/2), and x / 0 is +-Infinity
RoundedDepth(scrollTop, range) ==
    IF range = 0 THEN (IF scrollTop > 0 THEN Infinity ELSE 0 - Infinity)
    ELSE IF range > 0 THEN (200 * scrollTop + range) \div (2 * range)
    ELSE ((0 - 200 * scrollTop) - range) \div (0 - 2 * range)

\* HandleScroll that records every depth it computes, without the comparison
HandleScrollAlways(w, scrollTop, docHeight, winHeight) ==
    LET range        == docHeight - winHeight
        currentDepth == RoundedDepth(scrollTop, range)
    IN  IF ~DepthIsNaN(scrollTop, range)
        THEN Track([w EXCEPT !.maxScrollDepth = currentDepth],
                   "scroll_depth", [depth |-> currentDepth])
        ELSE w

\* HandleScroll that also records a depth equal to the maximum
HandleScrollAtLeast(w, scrollTop, docHeight, winHeight) ==
    LET range        == docHeight - winHeight
        currentDepth == RoundedDepth(scrollTop, range)
    IN  IF ~DepthIsNaN(scrollTop, range) /\ currentDepth >= w.maxScrollDepth
        THEN Track([w EXCEPT !.maxScrollDepth = currentDepth],
                   "scroll_depth", [depth |-> currentDepth])
        ELSE w

\* handleScroll() with window.scrollY, scrollHeight and innerHeight as read
HandleScroll(w, scrollTop, docHeight, winHeight) ==
    LET range        == docHeight - winHeight
        currentDepth == RoundedDepth(scrollTop, range)
    IN  IF ~DepthIsNaN(scrollTop, range) /\ currentDepth > w.maxScrollDepth
        THEN Track([w EXCEPT !.maxScrollDepth = currentDepth],
                   "scroll_depth", [depth |-> currentDepth])
        ELSE w

-----------------------------------------------------------------------------
(* init and its setup steps *)

InitSteps == <<"setupEventListeners", "startBatchProcessing",
               "trackPerformance", "trackPageview">>

\* setupEventListeners(): the handlers were bound once in the constructor, so
\* registering the same listener again changes nothing
SetupEventListeners(w) == [w EXCEPT !.listeners = TRUE]

\* startBatchProcessing(): one more interval timer
StartBatchProcessing(w) == [w EXCEPT !.timers = @ + 1]

\* measureConnectionSpeed() up to its await
MeasureConnectionSpeed(w) == [w EXCEPT !.probes = @ + 1]

\* measureConnectionSpeed() after its await, fetch resolved
MeasureConnectionSpeedResolved(w) ==
    Track([w EXCEPT !.probes = @ - 1], "connection_speed", [speed |-> 0])

\* measureConnectionSpeed() after its await, fetch rejected: logged only
MeasureConnectionSpeedRejected(w) == [w EXCEPT !.probes = @ - 1]

\* trackPerformance()
TrackPerformance(w) ==
    IF ~w.env.performance THEN w
    ELSE MeasureConnectionSpeed(Track(w, "performance", [loadTime |-> 0, domLoadTime |-> 0]))

\* trackPageview()
TrackPageview(w) == Track(w, "pageview", [url |-> 0])

InitStep(k, w) ==
    CASE k = 1 -> SetupEventListeners(w)
      [] k = 2 -> StartBatchProcessing(w)
      [] k = 3 -> TrackPerformance(w)
      [] k = 4 -> TrackPageview(w)

\* the try block of init() from its k-th statement on. A step whose
\* collaborator throws (env.failStep) throws before it changed anything; the
\* catch block logs the error and init() returns normally.
RECURSIVE InitTry(_, _)
InitTry(k, w) ==
    IF k > Len(InitSteps) THEN [w EXCEPT !.initialized = TRUE]
    ELSE IF w.env.failStep = InitSteps[k] THEN w
    ELSE InitTry(k + 1, InitStep(k, w))

\* InitMethod without the try/catch: what a setup step throws reaches the caller
InitMethodUncaught(w) ==
    LET w1 == [w EXCEPT !.initCalls = @ + 1,
                        !.lastCall = [op |-> "init", threw |-> FALSE]]
        w2 == InitTry(1, w1)
    IN  IF w1.initialized THEN w1
        ELSE IF w2.initialized THEN w2
        ELSE [w2 EXCEPT !.lastCall = [op |-> "init", threw |-> TRUE]]

\* init(): takes no parameter, so arguments passed to it are ignored. Whatever
\* a setup step throws is caught inside, so the call returns normally.
InitMethod(w) ==
    LET w1 == [w EXCEPT !.initCalls = @ + 1,
                        !.lastCall = [op |-> "init", threw |-> FALSE]]
    IN  IF w1.initialized THEN w1 ELSE InitTry(1, w1)

-----------------------------------------------------------------------------
(* The constructor *)

\* debug(...args): reads this.config.debug; on an instance whose config field is
\* not assigned yet (cfg = Undefined) that read raises a TypeError
Debug(cfg) == IF cfg = Undefined THEN "TypeError" ELSE "ok"

\* lines 10-41 of the constructor: the fields, then init() when a domainId is
\* given. startTime is read from the clock at t and lastActiveTime by a second
\* read, d ms later.
ConstructorBodyAt(c, e, t, d) ==
    LET w0 == [config |-> MakeConfig(c), queue |-> <<>>, startTime |-> t,
               lastActiveTime |-> t + d, activeTime |-> 0, isActive |-> FALSE,
               initialized |-> FALSE, interactions |-> 0, maxScrollDepth |-> 0,
               listeners |-> FALSE, timers |-> 0, inflight |-> {}, probes |-> 0,
               delivered |-> <<>>, beacons |-> <<>>, now |-> t + d, log |-> <<>>,
               env |-> e, lastCall |-> [op |-> "none", threw |-> FALSE],
               loader |-> [q |-> <<>>, state |-> "module", asked |-> <<>>, calls |-> 0],
               signalAt |-> t + d, initCalls |-> 0]
    IN  IF c.domainId # Undefined THEN InitMethod(w0) ELSE w0

\* the constructor with both clock reads in the same millisecond
ConstructorBody(c, e, t) == ConstructorBodyAt(c, e, t, 0)

\* new InsaneAnalytics(c) as written: line 8 calls this.debug(...) while
\* this.config is not assigned yet, whatever c is. TRUE when the call raises.
ConstructorThrows(c) == Debug(Undefined) = "TypeError"

\* No call of the constructor as written returns an instance. The runs below
\* examine the methods on the instance that the statements after line 8 build
\* (ConstructorBody); the constructor as written is the action NewInstance.

-----------------------------------------------------------------------------
(* Initial states: an instance made with a configuration, in a browser *)

Browsers == [performance : BOOLEAN, sendBeacon : BOOLEAN, failStep : {"none"}]

\* configurations of the delivery runs: a batchSize, with or without a domainId
DeliveryConfigs ==
    [endpoint : {<<>>}, domainId : {Undefined, "site"}, batchSize : 1..MaxBatchSize,
     batchInterval : {0}, debug : {FALSE}]

Init ==
    \E c \in DeliveryConfigs, e \in Browsers : Start(ConstructorBody(c, e, 0))

-----------------------------------------------------------------------------
(* Actions of the delivery runs *)

\* room for one more event in this run
CanTrack == Len(log) < MaxEvents

\* a direct call of track(), e.g. ia('track', 'custom')
TrackCall ==
    /\ CanTrack
    /\ Commit(Track(World, "custom", NoData))

\* the beforeunload listener fires
Exit ==
    /\ listeners
    /\ CanTrack
    /\ Commit(HandleExit(World))

\* an interval timer of startBatchProcessing fires
TimerTick ==
    /\ timers > 0
    /\ Commit(SendBatch(World))

\* the response of a POST arrives with an ok status
FetchOk ==
    \E r \in inflight : Commit(SendBatchResolved(World, r))

\* a POST fails: network error or a non-ok status
FetchFail ==
    \E r \in inflight : Commit(SendBatchRejected(World, r))

\* the response of the connection probe arrives
ProbeOk ==
    /\ probes > 0
    /\ CanTrack
    /\ Commit(MeasureConnectionSpeedResolved(World))

\* the connection probe fails
ProbeFail ==
    /\ probes > 0
    /\ Commit(MeasureConnectionSpeedRejected(World))

Next ==
    \/ TrackCall
    \/ Exit
    \/ TimerTick
    \/ FetchOk
    \/ FetchFail
    \/ ProbeOk
    \/ ProbeFail

Spec == Init /\ [][Next]_vars

-----------------------------------------------------------------------------
(* The fair delivery runs: no exit signal, the flush timer keeps firing and
   the POSTs do not fail forever *)

\* an initialized instance, so that init() has started the flush timer
LiveConfigs ==
    [endpoint : {<<>>}, domainId : {"site"}, batchSize : 1..MaxBatchSize,
     batchInterval : {0}, debug : {FALSE}]

LiveBrowsers == [performance : {FALSE}, sendBeacon : {TRUE}, failStep : {"none"}]

InitLive ==
    \E c \in LiveConfigs, e \in LiveBrowsers : Start(ConstructorBody(c, e, 0))

NextLive ==
    \/ TrackCall
    \/ TimerTick
    \/ FetchOk
    \/ FetchFail

\* setInterval fires again and again while the page lives: a tick that finds
\* events queued is not postponed forever (WF). Every POST settles, and the
\* POSTs that are issued again and again do not all fail (SF): a POST is not
\* pending while its batch waits in the queue for the next tick.
SpecLive ==
    /\ InitLive
    /\ [][NextLive]_vars
    /\ WF_vars(TimerTick)
    /\ SF_vars(FetchOk)

-----------------------------------------------------------------------------
(* The engagement runs: the session signals, with a clock *)

EngageConfigs ==
    [endpoint : {<<>>}, domainId : {"site"}, batchSize : {2},
     batchInterval : {0}, debug : {FALSE}]

EngageBrowsers == [performance : {FALSE}, sendBeacon : {TRUE}, failStep : {"none"}]

\* ms between the constructor's two reads of Date.now()
ReadGaps == {0, 1}

InitEngage ==
    \E c \in EngageConfigs, e \in EngageBrowsers, d \in ReadGaps :
        Start(ConstructorBodyAt(c, e, 0, d))

\* time passes, in ms
ClockSteps == {1000, 1001}

Advance ==
    /\ \E d \in ClockSteps :
          /\ now < MaxSeconds * 1000
          /\ now' = now + d
    /\ UNCHANGED <<config, queue, startTime, lastActiveTime, activeTime, isActive,
                   initialized, interactions, maxScrollDepth, listeners, timers,
                   inflight, probes, delivered, beacons, log, env, lastCall,
                   loader, signalAt, initCalls>>

\* a mousemove, keypress or click listener fires
Activity ==
    /\ listeners
    /\ interactions < MaxInteractions
    /\ LET w1 == HandleActivity(World)
       IN  /\ Len(w1.log) <= MaxSignalEvents
           /\ Commit([w1 EXCEPT !.signalAt = now])

\* scroll positions and page geometries: <<scrollHeight, innerHeight>>
ScrollTops == {0, 200, 300, 450}

Geometries == {<<2000, 1000>>, <<1300, 1000>>, <<1000, 1000>>, <<800, 1000>>}

\* the scroll listener fires
Scroll ==
    /\ listeners
    /\ \E scrollTop \in ScrollTops, g \in Geometries :
          LET w1 == HandleScroll(World, scrollTop, g[1], g[2])
          IN  /\ Len(w1.log) <= MaxSignalEvents
              /\ Commit(w1)

\* the visibilitychange listener fires
VisibilityChange ==
    /\ listeners
    /\ Len(log) < MaxSignalEvents
    /\ \E hidden \in BOOLEAN : Commit(HandleVisibilityChange(World, hidden))

\* the beforeunload listener fires, in an engagement run
SignalExit ==
    /\ listeners
    /\ Len(log) < MaxSignalEvents
    /\ Commit(HandleExit(World))

\* The POST completions and the timer leave the session fields alone; they are
\* the subject of the delivery runs (Spec).
NextEngage ==
    \/ Advance
    \/ Activity
    \/ Scroll
    \/ VisibilityChange
    \/ SignalExit

SpecEngage == InitEngage /\ [][NextEngage]_vars

-----------------------------------------------------------------------------
(* The loader runs: the snippet's stub, the script's top level, window.ia *)

\* commands queued on window.ia.q or passed to window.ia in one run
MaxCommands == 2

\* the configuration objects passed with ia('init', {...})
InitArgs ==
    [endpoint : {<<"https://e">>, <<"https://e", "/">>}, domainId : {"site"},
     batchSize : {0}, batchInterval : {0}, debug : {FALSE}]

\* the configurations tried with new InsaneAnalytics(c)
NewArgs ==
    [endpoint : {<<>>, <<"https://e", "/">>}, domainId : {Undefined, "site"},
     batchSize : {0, 2}, batchInterval : {0}, debug : {FALSE, TRUE}]

EmptyConfig ==
    [endpoint |-> <<>>, domainId |-> Undefined, batchSize |-> 0,
     batchInterval |-> 0, debug |-> FALSE]

Commands ==
    {[name |-> "init", arg |-> a] : a \in InitArgs}
        \cup {[name |-> "track", arg |-> EmptyConfig], [name |-> "bogus", arg |-> EmptyConfig]}

\* typeof analytics[name] === 'function'
IsMethod(name) == name \in {"init", "track"}

\* analytics[name].apply(analytics, args)
Apply(w, cmd) ==
    CASE cmd.name = "init"  -> InitMethod(w)
      [] cmd.name = "track" -> [Track(w, "custom", NoData)
                                  EXCEPT !.lastCall = [op |-> "track", threw |-> FALSE]]
      [] OTHER              -> w

\* bookkeeping of a command the page issued: their number, and the
\* configuration of the init command issued last
Asked(w, cmd) ==
    IF cmd.name = "init"
    THEN [w EXCEPT !.loader.asked = <<cmd.arg>>, !.loader.calls = @ + 1]
    ELSE [w EXCEPT !.loader.calls = @ + 1]

\* the stub of the installation snippet: (ia.q = ia.q || []).push(arguments)
IaStub(w, cmd) == [w EXCEPT !.loader.q = Append(@, cmd)]

\* the script's top level. Each entry of window.ia.q is an arguments object,
\* which has no slice method: for the first entry that names a method,
\* args.slice(1) raises a TypeError, forEach is abandoned and window.ia keeps
\* the stub. Entries that name no method are skipped.
ScriptTopLevel(w) ==
    LET w0 == [ConstructorBody(EmptyConfig, w.env, w.now)
                 EXCEPT !.loader = w.loader]
    IN  IF \E i \in 1..Len(w.loader.q) : IsMethod(w.loader.q[i].name)
        THEN [w0 EXCEPT !.loader.state = "threw",
                        !.lastCall = [op |-> "script", threw |-> TRUE]]
        ELSE [w0 EXCEPT !.loader.state = "ready",
                        !.lastCall = [op |-> "script", threw |-> FALSE]]

\* window.ia after the script replaced it: arguments are sliced with
\* Array.prototype.slice.call
IaFunction(w, cmd) == IF IsMethod(cmd.name) THEN Apply(w, cmd) ELSE w

\* trackPerformance() returns at once without window.performance, so it can
\* only throw in a browser that has it
LoadBrowsers ==
    {e \in [performance : BOOLEAN, sendBeacon : {TRUE},
            failStep : {"none", "setupEventListeners", "startBatchProcessing",
                        "trackPerformance", "trackPageview"}] :
        e.failStep = "trackPerformance" => e.performance}

InitLoad ==
    \E e \in LoadBrowsers :
        Start([ConstructorBody(EmptyConfig, e, 0)
                 EXCEPT !.loader = [q |-> <<>>, state |-> "pending", asked |-> <<>>,
                                    calls |-> 0]])

\* ia(...) before the script has run
StubCall ==
    /\ loader.state = "pending"
    /\ loader.calls < MaxCommands
    /\ \E cmd \in Commands : Commit(Asked(IaStub(World, cmd), cmd))

\* the script is loaded and run
LoadScript ==
    /\ loader.state = "pending"
    /\ Commit(ScriptTopLevel(World))

\* ia(...) after the script has run
IaCall ==
    /\ loader.state = "ready"
    /\ loader.calls < MaxCommands
    /\ \E cmd \in Commands : Commit(Asked(IaFunction(World, cmd), cmd))

\* new InsaneAnalytics(c), the constructor as written
NewInstance ==
    /\ \E c \in NewArgs :
          lastCall' = [op |-> "new", threw |-> ConstructorThrows(c)]
    /\ UNCHANGED <<config, queue, startTime, lastActiveTime, activeTime, isActive,
                   initialized, interactions, maxScrollDepth, listeners, timers,
                   inflight, probes, delivered, beacons, now, log, env, loader,
                   signalAt, initCalls>>

NextLoad ==
    \/ StubCall
    \/ LoadScript
    \/ IaCall
    \/ NewInstance
    \/ TimerTick
    \/ FetchOk
    \/ FetchFail

SpecLoad == InitLoad /\ [][NextLoad]_vars

-----------------------------------------------------------------------------
(* Properties of the delivery runs (Spec) *)

\* the events of s appear in push order
Ascending(s) == \A i, j \in 1..Len(s) : i < j => s[i].seq < s[j].seq

\* how often event e occurs in sequence s
CountIn(e, s) == Cardinality({i \in 1..Len(s) : s[i] = e})

\* how often event e occurs in the batches of the set of requests rs
RECURSIVE CountInRequests(_, _)
CountInRequests(e, rs) ==
    IF rs = {} THEN 0
    ELSE LET r == CHOOSE x \in rs : TRUE
         IN  CountIn(e, r.batch) + CountInRequests(e, rs \ {r})

\* how often event e occurs in the batches of the sequence of beacon calls bs
RECURSIVE CountInCalls(_, _)
CountInCalls(e, bs) ==
    IF bs = <<>> THEN 0 ELSE CountIn(e, Head(bs).batch) + CountInCalls(e, Tail(bs))

\* in how many places event e is: the queue, the requests in flight, the
\* confirmed deliveries, the beacon calls
Places(e) ==
    CountIn(e, queue) + CountInRequests(e, inflight) + CountIn(e, delivered)
        + CountInCalls(e, beacons)

RECURSIVE TotalInCalls(_)
TotalInCalls(bs) == IF bs = <<>> THEN 0 ELSE Len(Head(bs).batch) + TotalInCalls(Tail(bs))

RECURSIVE TotalInRequests(_)
TotalInRequests(rs) ==
    IF rs = {} THEN 0
    ELSE LET r == CHOOSE x \in rs : TRUE IN Len(r.batch) + TotalInRequests(rs \ {r})

\* this step is a call of track(): one event was pushed
TrackStep == Len(log') = Len(log) + 1

\* C1 (as claimed): the events confirmed delivered by successful POSTs are
\* confirmed in push order, whatever the order in which the requests in flight
\* complete: no event is confirmed before an event pushed earlier.
C1_DeliveredInAppendOrder == Ascending(delivered)

\* C2: events are conserved. Every event ever pushed by track() is in exactly
\* one place, once: the queue, one request in flight, the confirmed deliveries
\* or one beacon call; and these places hold nothing else. So a successful POST
\* removes its events for good and a failed one puts each of them back once.
C2_EventsConserved ==
    /\ \A i \in 1..Len(log) : Places(log[i]) = 1
    /\ Len(queue) + TotalInRequests(inflight) + Len(delivered) + TotalInCalls(beacons)
          = Len(log)

\* C2 witness: a batch came back after a failed POST (only a requeue makes the
\* queue reach batchSize with nothing in flight), another was confirmed, and a
\* beacon call was made.
C2_Witness ==
    /\ Len(queue) >= config.batchSize
    /\ inflight = {}
    /\ Len(delivered) > 0
    /\ Len(beacons) > 0

\* C3 (as claimed): the queue always holds its events in push order, also after
\* failed POSTs with more than one request in flight.
C3_QueueInAppendOrder == Ascending(queue)

\* this step is handleExit(): the event pushed is a page_exit
ExitStep == TrackStep /\ log'[Len(log')].eventType = "page_exit"

\* C4 (as claimed): handleExit() hands the whole queue together with the
\* page_exit event to navigator.sendBeacon in one call, hands nothing to fetch,
\* and leaves the queue empty. Stated for the browsers that have
\* navigator.sendBeacon, the only ones where a beacon call can be made at all.
C4_ExitDrainsByBeaconOnly ==
    [][(ExitStep /\ env.sendBeacon) =>
          /\ inflight' = inflight
          /\ queue' = <<>>
          /\ Len(beacons') = Len(beacons) + 1
          /\ beacons'[Len(beacons')].batch = Append(queue, log'[Len(log')])]_vars

\* the retry scenario's setting: batchSize 2
Retry2 == config.batchSize = 2

\* this step is an append by track() and nothing more (no beacon call follows)
AppendStep == TrackStep /\ beacons' = beacons

\* C5 (as claimed), the step "append C": with batchSize 2, the queue holding the
\* failed batch [A,B] and nothing in flight, track(C) leaves the queue [A,B,C].
C5_AppendLeavesThreeQueued ==
    [][(Retry2 /\ Len(queue) = 2 /\ inflight = {} /\ AppendStep) =>
          queue' = Append(queue, log'[Len(log')])]_vars

\* C5 (amended): with batchSize 2, an empty queue and nothing in flight,
\* appending A then B starts a POST whose batch is exactly [A,B]; when it fails
\* the queue is [A,B]; appending C then starts, inside that same track() call,
\* the next POST, whose batch is exactly [A,B], and leaves [C] queued; when that
\* POST succeeds A and B are confirmed and C stays queued.
C5_RetryScenario ==
    [][Retry2 =>
          /\ (Len(queue) = 1 /\ inflight = {} /\ AppendStep) =>
                /\ queue' = <<>>
                /\ \E r \in inflight' :
                      /\ inflight' = {r}
                      /\ r.batch = <<queue[1], log'[Len(log')]>>
          /\ (queue = <<>> /\ Cardinality(inflight) = 1 /\ inflight' = {}
                 /\ delivered' = delivered) =>
                \A r \in inflight : queue' = r.batch
          /\ (Len(queue) = 2 /\ inflight = {} /\ AppendStep) =>
                /\ queue' = <<log'[Len(log')]>>
                /\ \E r \in inflight' : inflight' = {r} /\ r.batch = queue
          /\ (Len(queue) = 1 /\ Cardinality(inflight) = 1 /\ inflight' = {}
                 /\ delivered' # delivered) =>
                /\ queue' = queue
                /\ \A r \in inflight : delivered' = delivered \o r.batch]_vars

\* C5 witness: the end of the scenario. A and B, pushed first, are confirmed
\* in that order and C, pushed third, is alone in the queue.
C5_Witness ==
    /\ Retry2
    /\ Len(log) = 3
    /\ delivered = <<log[1], log[2]>>
    /\ queue = <<log[3]>>
    /\ inflight = {}

-----------------------------------------------------------------------------
(* Properties of the loader runs (SpecLoad) *)

\* C6 (as claimed): once the script has run, an init command issued with
\* configuration c (queued on window.ia.q before the load, or passed to
\* window.ia after it) has initialized the collector with c: the events pushed
\* carry c.domainId and batches go to c.endpoint's /collect.
C6_InitCommandConfigures ==
    (loader.state # "pending" /\ loader.asked # <<>> /\ env.failStep = "none") =>
        /\ initialized
        /\ config.domainId = loader.asked[1].domainId
        /\ CollectUrl(World) = ConfigEndpoint(loader.asked[1].endpoint) \o <<"/collect">>
        /\ \A i \in 1..Len(log) :
              log[i].eventType = "pageview" => log[i].domainId = loader.asked[1].domainId

\* C7 (as claimed): new InsaneAnalytics(c) completes without raising, for every
\* configuration c.
C7_ConstructorCompletes == lastCall.op = "new" => ~lastCall.threw

\* position of a setup step in the try block of init()
StepIndex(name) == CHOOSE k \in 1..Len(InitSteps) : InitSteps[k] = name

\* C8: when a setup step of init() throws, the call of init() still returns
\* normally, and what the earlier steps set up stays: the listeners (steps
\* after the first), a running flush timer (steps after the second), and the
\* performance event pushed before a failing trackPageview, which is not lost:
\* it is queued, in flight or confirmed.
C8_InitFailureContained ==
    /\ lastCall.op = "init" => ~lastCall.threw
    /\ (initCalls > 0 /\ env.failStep # "none") =>
          LET k == StepIndex(env.failStep)
          IN  /\ k > 1 => listeners
              /\ k > 2 => timers >= 1
              /\ (k > 3 /\ env.performance) =>
                    \E i \in 1..Len(log) :
                        /\ log[i].eventType = "performance"
                        /\ Places(log[i]) = 1

\* C8 witness: trackPageview threw during init(), and the performance event
\* pushed before it has since been confirmed delivered by a timer flush.
C8_Witness ==
    /\ env.failStep = "trackPageview"
    /\ lastCall = [op |-> "init", threw |-> FALSE]
    /\ listeners
    /\ timers >= 1
    /\ \E i \in 1..Len(delivered) : delivered[i].eventType = "performance"

-----------------------------------------------------------------------------
(* Properties of the engagement runs (SpecEngage) *)

\* this step is handleActivity(): it alone counts an interaction
ActivityStep == interactions' = interactions + 1

\* C9: activeTime never decreases; an activity signal adds the time elapsed
\* since the previous activity signal (since construction for the first one)
\* when that time exceeds 1000 ms and adds nothing otherwise; no other step
\* changes activeTime.
C9_ActiveTimeGrowth ==
    [][/\ activeTime' >= activeTime
       /\ ActivityStep =>
             activeTime' - activeTime
                 = (IF now - signalAt > 1000 THEN now - signalAt ELSE 0)
       /\ ~ActivityStep => activeTime' = activeTime]_vars

\* C9 witness: two activity signals, one after a gap that was counted and one
\* after a gap that was not.
C9_Witness ==
    /\ interactions = 2
    /\ activeTime > 0
    /\ activeTime < signalAt - startTime

\* C10: no step lowers maxScrollDepth.
C10_MaxScrollDepthMonotone == [][maxScrollDepth' >= maxScrollDepth]_vars

\* C10 witness: the maximum was raised twice, to 30 and then to 45 (a scroll
\* back to depth 20 in between is among the signals tried).
C10_Witness ==
    /\ maxScrollDepth = 45
    /\ \E i, j \in 1..Len(log) :
          /\ i < j
          /\ log[i].eventType = "scroll_depth" /\ log[i].data.depth = 30
          /\ log[j].eventType = "scroll_depth" /\ log[j].data.depth = 45

\* the positions in the log of the scroll_depth events
ScrollDepthEvents == {i \in 1..Len(log) : log[i].eventType = "scroll_depth"}

\* C11: the depths of the scroll_depth events are strictly increasing in append
\* order, and in every state every scroll signal appends one scroll_depth event
\* carrying its computed depth when that depth is a number strictly greater
\* than maxScrollDepth, and appends and changes nothing otherwise.
C11_ScrollDepthOnNewMaximum ==
    /\ \A i, j \in ScrollDepthEvents :
          i < j => log[i].data.depth < log[j].data.depth
    /\ \A scrollTop \in ScrollTops, g \in Geometries :
          LET range == g[1] - g[2]
              depth == RoundedDepth(scrollTop, range)
              w1    == HandleScroll(World, scrollTop, g[1], g[2])
          IN  IF ~DepthIsNaN(scrollTop, range) /\ depth > maxScrollDepth
              THEN /\ Len(w1.log) = Len(log) + 1
                   /\ SubSeq(w1.log, 1, Len(log)) = log
                   /\ w1.log[Len(w1.log)].eventType = "scroll_depth"
                   /\ w1.log[Len(w1.log)].data = [depth |-> depth]
                   /\ Len(w1.queue) + TotalInRequests(w1.inflight)
                         = Len(queue) + TotalInRequests(inflight) + 1
              ELSE w1 = World

\* C11 witness: signals of depth 30, 20 and 45 have left exactly two
\* scroll_depth events, of depths 30 and 45.
C11_Witness ==
    /\ Cardinality(ScrollDepthEvents) = 2
    /\ \E i, j \in ScrollDepthEvents :
          i < j /\ log[i].data.depth = 30 /\ log[j].data.depth = 45
    /\ maxScrollDepth = 45

-----------------------------------------------------------------------------
(* Properties of the fair delivery runs (SpecLive) *)

\* the k-th appended event has been confirmed delivered
Confirmed(k) == \E i \in 1..Len(delivered) : delivered[i] = log[k]

\* C12: without an exit signal, with the flush timer firing and POSTs that do
\* not fail forever, every appended event is eventually confirmed delivered;
\* and the events of a failed POST are back at the front of the queue, where
\* the next timer tick or threshold breach takes them, however often the POST
\* has failed before.
C12_EventuallyConfirmed ==
    /\ \A k \in 1..MaxEvents :
          (Len(log) >= k) ~> (Len(log) >= k /\ Confirmed(k))
    /\ [][\A r \in inflight \ inflight' :
            delivered' = delivered =>
                /\ Len(queue') >= Len(r.batch)
                /\ SubSeq(queue', 1, Len(r.batch)) = r.batch]_vars

\* C12 witness: every appended event is confirmed, in a run whose queue never
\* reached batchSize, so that only the timer has flushed it.
C12_Witness ==
    /\ Len(log) >= 1
    /\ Len(log) < config.batchSize
    /\ \A k \in 1..Len(log) : Confirmed(k)
    /\ queue = <<>> /\ inflight = {}

-----------------------------------------------------------------------------
(* Properties of the batches (Spec) *)

\* what a step appends to the log, the POSTs it starts, the beacon calls it makes
NewEvents == SubSeq(log', Len(log) + 1, Len(log'))

NewRequests == inflight' \ inflight

NewCalls == SubSeq(beacons', Len(beacons) + 1, Len(beacons'))

\* the batch of the POST a step starts and of the beacon call it makes, <<>> if none
NewRequestBatch ==
    IF NewRequests = {} THEN <<>> ELSE (CHOOSE r \in NewRequests : TRUE).batch

NewCallBatch == IF NewCalls = <<>> THEN <<>> ELSE NewCalls[1].batch

\* C13: a step that hands a batch to a transport takes it off the front of the
\* queue in that same step, and nothing else touches the queue in it: what the
\* step sends, followed by what it leaves queued, is the queue it found with
\* the events it appended, and no POST settles in that step. No event is at
\* once in the queue and in a batch, or in two batches.
C13_DequeueAndHandOffAtomic ==
    /\ [](\A k \in 1..Len(log) :
            CountIn(log[k], queue) + CountInRequests(log[k], inflight)
                + CountInCalls(log[k], beacons) <= 1)
    /\ [][/\ Cardinality(NewRequests) <= 1
          /\ Len(NewCalls) <= 1
          /\ (NewRequests # {} \/ NewCalls # <<>>) =>
                /\ NewRequestBatch \o NewCallBatch \o queue' = queue \o NewEvents
                /\ inflight \subseteq inflight'
                /\ delivered' = delivered]_vars

\* C13 witness: two POSTs in flight and a beacon call, each with events, after
\* threshold or timer flushes and an exit.
C13_Witness ==
    /\ Cardinality(inflight) >= 2
    /\ \E i \in 1..Len(beacons) : beacons[i].batch # <<>>
    /\ delivered # <<>>

\* C14: no transport call carries an empty batch: neither a POST in flight nor
\* a beacon call made.
C14_NoEmptyBatchSent ==
    /\ \A r \in inflight : r.batch # <<>>
    /\ \A i \in 1..Len(beacons) : beacons[i].batch # <<>>

\* C15: every batch of a POST holds between 1 and batchSize events, and a POST
\* is started with the oldest events of the queue as the flush finds it (the
\* queue with the event just appended, for a threshold flush), in queue order.
C15_PostBatchBounded ==
    /\ [](\A r \in inflight :
            Len(r.batch) >= 1 /\ Len(r.batch) <= config.batchSize)
    /\ [][\A r \in NewRequests :
            LET found == queue \o NewEvents
            IN  r.batch = SubSeq(found, 1, Min(config.batchSize, Len(found)))]_vars

\* C15 witness: a POST in flight with batchSize events, taken from a queue that
\* held more (requeued) events, and an exit beacon call with more than
\* batchSize events, all younger than those of the POST.
C15_Witness ==
    \E r \in inflight, i \in 1..Len(beacons) :
        /\ Len(r.batch) = config.batchSize
        /\ Len(beacons[i].batch) > config.batchSize
        /\ r.batch[1].seq < beacons[i].batch[1].seq

\* C16: a step in which track() appends an event starts a POST exactly when
\* the append leaves the queue with at least batchSize events, whether or not
\* the queue was already that long.
C16_ThresholdFlushInSameStep ==
    [][TrackStep =>
          ((Len(queue) + 1 >= config.batchSize) <=> NewRequests # {})]_vars

\* C16 witness: the newest event was appended to a queue that requeued batches
\* had already brought to batchSize or beyond; a POST is in flight and the
\* newest event is still queued behind more events than a batch holds.
C16_Witness ==
    /\ inflight # {}
    /\ Len(queue) > config.batchSize
    /\ queue[Len(queue)] = log[Len(log)]
    /\ beacons = <<>>

\* C17: no event of a beacon call is in the queue; and an event that a step
\* puts into the queue is either one the step appends or one of a POST that
\* the step settles as failed (the POST is gone and nothing is confirmed).
C17_OnlyFailedPostsRequeue ==
    /\ [](\A k \in 1..Len(log) :
            CountInCalls(log[k], beacons) > 0 => CountIn(log[k], queue) = 0)
    /\ [][\A i \in 1..Len(queue') :
            (CountIn(queue'[i], queue) = 0 /\ CountIn(queue'[i], NewEvents) = 0) =>
                /\ delivered' = delivered
                /\ beacons' = beacons
                /\ \E r \in inflight \ inflight' : CountIn(queue'[i], r.batch) > 0]_vars

\* C17 witness: after a beacon call took the whole queue, events older than the
\* beacon's are queued again: those of a POST that failed afterwards.
C17_Witness ==
    \E i \in 1..Len(beacons) :
        /\ beacons[i].batch # <<>>
        /\ queue # <<>>
        /\ \A j \in 1..Len(queue) : queue[j].seq < beacons[i].batch[1].seq

-----------------------------------------------------------------------------
(* More properties of the engagement runs (SpecEngage) *)

\* the positions in the log of the activity_start events
ActivityStarts == {i \in 1..Len(log) : log[i].eventType = "activity_start"}

\* C18: isActive is true exactly from the first activity signal on and no step
\* sets it back to false; a step appends an activity_start event exactly when
\* it is the first activity signal, so the log holds one activity_start event
\* once there has been an activity signal and none before.
C18_ActivityStartOnce ==
    /\ [](/\ isActive <=> interactions > 0
          /\ Cardinality(ActivityStarts) = (IF interactions > 0 THEN 1 ELSE 0))
    /\ [][/\ isActive => isActive'
          /\ (\E i \in 1..Len(NewEvents) : NewEvents[i].eventType = "activity_start")
                <=> (ActivityStep /\ interactions = 0)]_vars

\* C18 witness: two activity signals, and other events appended after the one
\* activity_start event.
C18_Witness ==
    /\ interactions = 2
    /\ isActive
    /\ \E i \in ActivityStarts : i < Len(log)

\* C19: maxScrollDepth is between 0 and 100.
C19_MaxScrollDepthInRange == maxScrollDepth >= 0 /\ maxScrollDepth <= 100

-----------------------------------------------------------------------------
(* The events themselves (Spec) *)

\* event e is, field for field, the event that track() appended as the
\* e.seq-th of the run
AsAppended(e) == e.seq \in 1..Len(log) /\ e = log[e.seq]

\* C20: every event that is queued, in a POST in flight, confirmed or in a
\* beacon call has exactly the fields it was appended with, and no step changes
\* the record of an appended event.
C20_EventsNeverChanged ==
    /\ [](/\ \A i \in 1..Len(queue) : AsAppended(queue[i])
          /\ \A r \in inflight : \A i \in 1..Len(r.batch) : AsAppended(r.batch[i])
          /\ \A i \in 1..Len(delivered) : AsAppended(delivered[i])
          /\ \A c \in 1..Len(beacons) :
                \A i \in 1..Len(beacons[c].batch) : AsAppended(beacons[c].batch[i]))
    /\ [][/\ Len(log') >= Len(log)
          /\ \A k \in 1..Len(log) : log'[k] = log[k]]_vars

\* C20 witness: an event is queued that is older than a confirmed one, so it
\* was put back after a failed POST; later events were appended, a POST is in
\* flight and a beacon call was made.
C20_Witness ==
    /\ \E i \in 1..Len(queue), j \in 1..Len(delivered) :
          queue[i].seq < delivered[j].seq
    /\ inflight # {}
    /\ beacons # <<>>

-----------------------------------------------------------------------------
(* The flush timer (SpecLoad) *)

\* C21: at most one interval timer of startBatchProcessing is running.
C21_AtMostOneFlushTimer == timers <= 1

-----------------------------------------------------------------------------
(* Active time and total time (SpecEngage) *)

\* the positions in the log of the page_hide and page_exit events
TimedEvents == {i \in 1..Len(log) : log[i].eventType \in {"page_hide", "page_exit"}}

\* C22: activeTime is at most the time elapsed since startTime, and every
\* page_hide and page_exit event carries an activeTime that is at most its
\* totalTime.
C22_ActiveTimeWithinTotalTime ==
    /\ activeTime <= now - startTime
    /\ \A i \in TimedEvents : log[i].data.activeTime <= log[i].data.totalTime

\* C22 witness: a page_exit event after activity signals, two of them counted,
\* carrying an active time that is positive and equal to its total time.
C22_Witness ==
    /\ interactions = 2
    /\ \E i \in TimedEvents :
          /\ log[i].eventType = "page_exit"
          /\ log[i].data.activeTime > 2 * ActiveGap
          /\ log[i].data.activeTime = log[i].data.totalTime

====
